---- MODULE Spec2Model ----
(***************************************************************************)
(* The environments modal of                                               *)
(* packages/insomnia/src/ui/components/modals/                             *)
(* workspace-environments-edit-modal.tsx as a state machine.               *)
(*                                                                         *)
(* The component's hook state, the store it observes (workspace, workspace *)
(* meta, environments), the data editor's validity and the persistence     *)
(* calls in flight are the variables.  Every event handler is one action;  *)
(* a handler that awaits is split at its await.  A handler is written as   *)
(* the sequence of calls it makes, in the order of its statements, and the *)
(* action applies that sequence.                                           *)
(***************************************************************************)
EXTENDS Integers, Sequences, FiniteSets

(* ---------------------------- values ---------------------------------- *)

\* JavaScript's undefined (the value of x?._id for a null x) and null.
Undefined == -1
Null == 0
\* The _id of the active workspace, and the _id of its base environment.
WorkspaceId == 1
BaseId == 2
\* Sub-environment ids are FirstSubId, FirstSubId + 1, ...
FirstSubId == 3

\* Bounds of the model: the largest environment id, and the calls in flight
\* (a fire-and-forget call counts one, a handler suspended at an await two).
MaxEnvId == 4
MaxInFlight == 3

SubIds == FirstSubId..MaxEnvId
\* Sort keys: one more value than there are sub-environment ids, so that a
\* drop after the last sub-environment has a key.
MaxKey == MaxEnvId - FirstSubId + 2
Keys == 1..MaxKey
\* The data document of an environment: as created, or as edited.
DataVals == {"initial", "edited"}

\* An Environment record: the fields of models/environment the modal reads.
Env(id, parentId, isPrivate, metaSortKey, data) ==
  [id |-> id, parentId |-> parentId, isPrivate |-> isPrivate,
   metaSortKey |-> metaSortKey, data |-> data]

\* state.baseEnvironment === null
NoEnvironment == [id |-> Undefined]
\* useSelector(selectActiveWorkspaceMeta) when there is no active workspace
NoMeta == [activeEnvironmentId |-> Undefined]

VARIABLES
  workspace,       \* useSelector(selectActiveWorkspace): Null or WorkspaceId
  workspaceMeta,   \* useSelector(selectActiveWorkspaceMeta)
  environments,    \* useSelector(selectEnvironments): a set of Env records
  state,           \* useState<State>: baseEnvironment, selectedEnvironmentId
  shown,           \* whether the Modal is presented
  editorValid,     \* environmentEditorRef.current?.isValid()
  pending,         \* persistence calls and awaits in flight
  nextId,          \* the next fresh environment id
  last             \* the handler that ran last, its inputs and its calls

vars == <<workspace, workspaceMeta, environments, state, shown, editorValid,
          pending, nextId, last>>

(* ---------------------------- calls ----------------------------------- *)

\* models.workspaceMeta.update(workspaceMeta, { activeEnvironmentId })
MetaUpdate(activeEnvironmentId) ==
  [t |-> "workspaceMeta.update", id |-> activeEnvironmentId]
\* models.environment.remove(current)
Remove(id) == [t |-> "environment.remove", id |-> id]
\* setState(state => ({ ...state, selectedEnvironmentId }))
SetSelected(id) == [t |-> "setState", id |-> id]
\* updateEnvironment(environmentId, patch), with the render's state and
\* workspace that its closure holds
UpdateEnvironmentCall(id, field, val, st, ws) ==
  [t |-> "updateEnvironment", id |-> id, field |-> field, val |-> val,
   sel |-> st.selectedEnvironmentId, ws |-> ws]

IsPersistence(c) == c.t # "setState"

(* ---------------------------- derived values -------------------------- *)

EnvIds(envs) == {e.id : e \in envs}
Find(envs, id) == IF \E e \in envs : e.id = id
                  THEN CHOOSE e \in envs : e.id = id
                  ELSE NoEnvironment

\* baseEnvironment?._id || null
BaseIdOrNull(st) ==
  IF st.baseEnvironment = NoEnvironment THEN Null ELSE st.baseEnvironment.id

\* environments.filter(e => e.parentId === baseEnvironment._id), unsorted
SubEnvironmentSet(envs, st) ==
  {e \in envs : st.baseEnvironment # NoEnvironment
                /\ e.parentId = st.baseEnvironment.id}

Before(e1, e2) ==
  \/ e1.metaSortKey < e2.metaSortKey
  \/ e1.metaSortKey = e2.metaSortKey /\ e1.id < e2.id

RECURSIVE SortByKey(_)
SortByKey(S) ==
  IF S = {} THEN <<>>
  ELSE LET first == CHOOSE e \in S : \A o \in S \ {e} : Before(e, o)
       IN <<first>> \o SortByKey(S \ {first})

\* subEnvironments: the list rendered in the sidebar, ascending by sort key
\* (equal keys keep the order of their ids)
subEnvironments(envs, st) == SortByKey(SubEnvironmentSet(envs, st))

\* selectedEnvironment
selectedEnvironment(envs, st) ==
  IF st.baseEnvironment.id = st.selectedEnvironmentId
  THEN st.baseEnvironment
  ELSE Find(SubEnvironmentSet(envs, st), st.selectedEnvironmentId)

(* ---------------------------- the state ------------------------------- *)

NoLast == [op |-> "none", id |-> Null, target |-> Null, pos |-> "",
           isPrivate |-> FALSE, calls |-> <<>>]

\* What is recorded of the handler that ran last: its name, its argument
\* and the calls it made, in their order.
Did(op) == [NoLast EXCEPT !.op = op]

Ran(op, id, calls) == [NoLast EXCEPT !.op = op, !.id = id, !.calls = calls]

InitialEnvironments ==
  {Env(BaseId, WorkspaceId, FALSE, 0, "initial"),
   Env(FirstSubId, BaseId, FALSE, 1, "initial")}

Init ==
  /\ workspace \in {Null, WorkspaceId}
  /\ environments \in
       IF workspace = Null THEN {{}} ELSE {{}, InitialEnvironments}
  /\ workspaceMeta \in
       IF workspace = Null THEN {NoMeta}
       ELSE {[activeEnvironmentId |-> a] :
               a \in {Null} \cup (EnvIds(environments) \ {BaseId})}
  /\ state = [baseEnvironment |-> NoEnvironment, selectedEnvironmentId |-> Null]
  /\ shown = FALSE
  /\ editorValid = TRUE
  /\ pending = {}
  /\ nextId = FirstSubId + 1
  /\ last = NoLast

(* ---------------------------- applying calls -------------------------- *)

\* The selection after the setState calls of a handler.
RECURSIVE AfterSetState(_, _)
AfterSetState(st, calls) ==
  IF calls = <<>> THEN st
  ELSE AfterSetState(
         IF Head(calls).t = "setState"
         THEN [st EXCEPT !.selectedEnvironmentId = Head(calls).id]
         ELSE st,
         Tail(calls))

Issued(calls) == {calls[i] : i \in {j \in DOMAIN calls : IsPersistence(calls[j])}}

FireAndForget(c) == c.t \in {"workspaceMeta.update", "environment.remove"}
InFlight(P) ==
  Cardinality({c \in P : FireAndForget(c)}) + 2 * Cardinality({c \in P : ~FireAndForget(c)})

\* A synchronous handler: its persistence calls are in flight when it
\* returns, its state updates are applied by the render that follows.
Handle(ran, calls) ==
  /\ InFlight(pending \cup Issued(calls)) <= MaxInFlight
  /\ pending' = pending \cup Issued(calls)
  /\ state' = AfterSetState(state, calls)
  /\ last' = ran

(* ---------------------------- onSelectionChange ----------------------- *)

\* Mutant: the validity of the editor is not consulted.
onSelectionChangeCallsUnguarded(valid, anchorKey, meta) ==
  IF anchorKey # Null
  THEN <<SetSelected(anchorKey)>>
       \o (IF meta.activeEnvironmentId # anchorKey /\ meta # NoMeta
           THEN <<MetaUpdate(anchorKey)>> ELSE <<>>)
  ELSE <<>>

\* Mutant: the active environment id is persisted on every valid change.
onSelectionChangeCallsAlwaysPersists(valid, anchorKey, meta) ==
  IF valid /\ anchorKey # Null
  THEN <<SetSelected(anchorKey)>>
       \o (IF meta # NoMeta THEN <<MetaUpdate(anchorKey)>> ELSE <<>>)
  ELSE <<>>

onSelectionChangeCalls(valid, anchorKey, meta) ==
  IF valid /\ anchorKey # Null
  THEN <<SetSelected(anchorKey)>>
       \o (IF meta.activeEnvironmentId # anchorKey /\ meta # NoMeta
           THEN <<MetaUpdate(anchorKey)>> ELSE <<>>)
  ELSE <<>>

\* e.anchorKey is the key of a rendered list item, or absent.
onSelectionChange(anchorKey) ==
  /\ shown
  /\ anchorKey \in {Null} \cup EnvIds(SubEnvironmentSet(environments, state))
  /\ LET calls == onSelectionChangeCalls(editorValid, anchorKey, workspaceMeta)
     IN Handle(Ran("onSelectionChange", anchorKey, calls), calls)
  /\ UNCHANGED <<workspace, workspaceMeta, environments, shown, editorValid, nextId>>

(* ---------------------------- show / hide ----------------------------- *)

\* show() up to its await: the closure's workspace and activeEnvironmentId
ShowCall(ws, meta) ==
  [t |-> "show", ws |-> ws, id |-> meta.activeEnvironmentId]

\* Mutant: show always selects the base environment.
ShowSelectionAlwaysBase(activeEnvironmentId, baseEnvironment) == baseEnvironment.id

\* workspaceMeta?.activeEnvironmentId || baseEnvironment._id
ShowSelection(activeEnvironmentId, baseEnvironment) ==
  IF activeEnvironmentId \notin {Null, Undefined}
  THEN activeEnvironmentId ELSE baseEnvironment.id

\* models.environment.getOrCreateForParentId(workspace._id)
getOrCreateForParentId(envs, ws) ==
  IF \E e \in envs : e.parentId = ws
  THEN CHOOSE e \in envs : e.parentId = ws
  ELSE Env(BaseId, ws, FALSE, 0, "initial")

\* show with no active workspace returns at once
ShowNoWorkspace ==
  /\ workspace = Null
  /\ last' = Did("showNoWorkspace")
  /\ UNCHANGED <<workspace, workspaceMeta, environments, state, shown,
                 editorValid, pending, nextId>>

ShowStart ==
  /\ workspace # Null
  /\ Handle(Did("show"), <<ShowCall(workspace, workspaceMeta)>>)
  /\ UNCHANGED <<workspace, workspaceMeta, environments, shown, editorValid, nextId>>

\* show() after its await: setState, then modalRef.current?.show()
ShowDone(c) ==
  /\ c \in pending /\ c.t = "show"
  /\ LET baseEnvironment == getOrCreateForParentId(environments, c.ws)
     IN /\ environments' = environments \cup {baseEnvironment}
        /\ state' = [state EXCEPT
                       !.baseEnvironment = baseEnvironment,
                       !.selectedEnvironmentId = ShowSelection(c.id, baseEnvironment)]
  /\ shown' = TRUE
  /\ pending' = pending \ {c}
  /\ last' = [Did("showDone") EXCEPT !.id = c.id]
  /\ UNCHANGED <<workspace, workspaceMeta, editorValid, nextId>>

\* hide(), and the Close button: modalRef.current?.hide()
Hide ==
  /\ shown' = FALSE
  /\ last' = Did("hide")
  /\ UNCHANGED <<workspace, workspaceMeta, environments, state, editorValid,
                 pending, nextId>>

(* ---------------------------- handleDeleteEnvironment ----------------- *)

\* Mutant: only an absent id is refused.
DeleteRefusedOnlyNull(environmentId, st) == environmentId = Null

\* if (!environmentId || environmentId === state.baseEnvironment?._id) return
DeleteRefused(environmentId, st) ==
  environmentId = Null \/ environmentId = st.baseEnvironment.id

\* Mutant: the record is removed before the active pointer is cleared.
handleDeleteEnvironmentCallsRemoveFirst(environmentId, st, meta, envs) ==
  IF DeleteRefused(environmentId, st) THEN <<>>
  ELSE (IF Find(envs, environmentId) # NoEnvironment
        THEN <<Remove(environmentId)>> ELSE <<>>)
       \o (IF meta.activeEnvironmentId = environmentId /\ meta # NoMeta
           THEN <<MetaUpdate(Null)>> ELSE <<>>)
       \o <<SetSelected(BaseIdOrNull(st))>>

\* Mutant: the selection is reset only when a record was found and removed.
handleDeleteEnvironmentCallsResetIfFound(environmentId, st, meta, envs) ==
  IF DeleteRefused(environmentId, st) THEN <<>>
  ELSE (IF meta.activeEnvironmentId = environmentId /\ meta # NoMeta
        THEN <<MetaUpdate(Null)>> ELSE <<>>)
       \o (IF Find(envs, environmentId) # NoEnvironment
           THEN <<Remove(environmentId), SetSelected(BaseIdOrNull(st))>> ELSE <<>>)

handleDeleteEnvironmentCalls(environmentId, st, meta, envs) ==
  IF DeleteRefused(environmentId, st) THEN <<>>
  ELSE (IF meta.activeEnvironmentId = environmentId /\ meta # NoMeta
        THEN <<MetaUpdate(Null)>> ELSE <<>>)
       \o (IF Find(envs, environmentId) # NoEnvironment
           THEN <<Remove(environmentId)>> ELSE <<>>)
       \o <<SetSelected(BaseIdOrNull(st))>>

\* The trash button calls it with the selected id and is rendered for a
\* selected id that is not the base's; a null id and the base's id are the
\* calls its guard is there for.
handleDeleteEnvironment(environmentId) ==
  /\ shown
  /\ environmentId \in {Null, state.baseEnvironment.id, state.selectedEnvironmentId}
  /\ LET calls == handleDeleteEnvironmentCalls(environmentId, state,
                                               workspaceMeta, environments)
     IN Handle(Ran("handleDeleteEnvironment", environmentId, calls), calls)
  /\ UNCHANGED <<workspace, workspaceMeta, environments, shown, editorValid, nextId>>

(* ---------------------------- the Base Environment button ------------- *)

BaseClickCalls(valid, st) ==
  IF valid /\ st.selectedEnvironmentId = st.baseEnvironment.id
  THEN <<SetSelected(st.baseEnvironment.id)>>
  ELSE <<>>

BaseClick ==
  /\ shown
  /\ LET calls == BaseClickCalls(editorValid, state)
     IN Handle(Ran("baseClick", Null, calls), calls)
  /\ UNCHANGED <<workspace, workspaceMeta, environments, shown, editorValid, nextId>>

(* ---------------------------- workspace-meta and remove, applied ------ *)

ApplyMetaUpdate(c) ==
  /\ c \in pending /\ c.t = "workspaceMeta.update"
  /\ workspaceMeta' = [workspaceMeta EXCEPT !.activeEnvironmentId = c.id]
  /\ pending' = pending \ {c}
  /\ last' = Did("workspaceMeta.update")
  /\ UNCHANGED <<workspace, environments, state, shown, editorValid, nextId>>

ApplyRemove(c) ==
  /\ c \in pending /\ c.t = "environment.remove"
  /\ environments' = {e \in environments : e.id # c.id}
  /\ pending' = pending \ {c}
  /\ last' = Did("environment.remove")
  /\ UNCHANGED <<workspace, workspaceMeta, state, shown, editorValid, nextId>>

\* The user types in the data editor: its content becomes valid or invalid.
EditorInput ==
  /\ shown
  /\ editorValid' = ~editorValid
  /\ last' = Did("editorInput")
  /\ UNCHANGED <<workspace, workspaceMeta, environments, state, shown,
                 pending, nextId>>

(* ---------------------------- create -------------------------------- *)

\* Mutant: the private item passes the flag of the public one.
CreatePatchPublic(baseEnvironment, isPrivate) ==
  [parentId |-> baseEnvironment.id, isPrivate |-> FALSE]

\* The argument of models.environment.create in the two dropdown items.
CreatePatch(baseEnvironment, isPrivate) ==
  [parentId |-> baseEnvironment.id, isPrivate |-> isPrivate]

\* The dropdown item clicked, the id the new record gets, and the argument.
CreateCall(id, private, patch) ==
  [t |-> "environment.create", id |-> id, private |-> private, patch |-> patch]

\* onClick of "Environment" (isPrivate = FALSE) and "Private Environment"
\* (isPrivate = TRUE), up to the await
CreateStart(isPrivate) ==
  /\ shown
  /\ IF state.baseEnvironment # NoEnvironment
     THEN /\ nextId <= MaxEnvId
          /\ nextId' = nextId + 1
          /\ Handle([Did("create") EXCEPT !.id = nextId, !.isPrivate = isPrivate],
                    <<CreateCall(nextId, isPrivate,
                                 CreatePatch(state.baseEnvironment, isPrivate))>>)
     ELSE /\ Handle(Did("create"), <<>>)
          /\ UNCHANGED nextId
  /\ UNCHANGED <<workspace, workspaceMeta, environments, shown, editorValid>>

\* The record models.environment.create resolves to; its sort key is the
\* time of creation, any key here.
CreateDone(c, key) ==
  /\ c \in pending /\ c.t = "environment.create"
  /\ environments' = environments
       \cup {Env(c.id, c.patch.parentId, c.patch.isPrivate, key, "initial")}
  /\ state' = AfterSetState(state, <<SetSelected(c.id)>>)
  /\ pending' = pending \ {c}
  /\ last' = [Did("createDone") EXCEPT !.id = c.id, !.isPrivate = c.private]
  /\ UNCHANGED <<workspace, workspaceMeta, shown, editorValid, nextId>>

(* ---------------------------- duplicate ------------------------------- *)

DuplicateCall(id, env) == [t |-> "environment.duplicate", id |-> id, env |-> env]

\* The Duplicate button is rendered with the trash button.
ButtonsRendered(st) ==
  st.selectedEnvironmentId # Null /\ st.baseEnvironment.id # st.selectedEnvironmentId

DuplicateStart ==
  /\ shown
  /\ ButtonsRendered(state)
  /\ IF selectedEnvironment(environments, state) # NoEnvironment
     THEN /\ nextId <= MaxEnvId
          /\ nextId' = nextId + 1
          /\ Handle(Did("duplicate"),
                    <<DuplicateCall(nextId, selectedEnvironment(environments, state))>>)
     ELSE /\ Handle(Did("duplicate"), <<>>)
          /\ UNCHANGED nextId
  /\ UNCHANGED <<workspace, workspaceMeta, environments, shown, editorValid>>

DuplicateDone(c) ==
  /\ c \in pending /\ c.t = "environment.duplicate"
  /\ environments' = environments \cup {[c.env EXCEPT !.id = c.id]}
  /\ state' = AfterSetState(state, <<SetSelected(c.id)>>)
  /\ pending' = pending \ {c}
  /\ last' = [Did("duplicateDone") EXCEPT !.id = c.id]
  /\ UNCHANGED <<workspace, workspaceMeta, shown, editorValid, nextId>>

(* ---------------------------- updateEnvironment ----------------------- *)

\* if (environmentId === null) return
updateEnvironmentCalls(environmentId, field, val, st, ws) ==
  IF environmentId = Null THEN <<>>
  ELSE <<UpdateEnvironmentCall(environmentId, field, val, st, ws)>>

Patched(env, field, val) ==
  IF field = "metaSortKey" THEN [env EXCEPT !.metaSortKey = val]
  ELSE [env EXCEPT !.data = val]

\* setState({ ...state, baseEnvironment: updated }) with the state of the
\* render that called updateEnvironment
ReloadBase(sel, updated) ==
  [baseEnvironment |-> updated, selectedEnvironmentId |-> sel]

\* updateEnvironment after its awaits: getById, update, and the reload of
\* the base environment
updateEnvironmentDone(c) ==
  /\ c \in pending /\ c.t = "updateEnvironment"
  /\ LET realEnvironment == Find(environments, c.id)
         updated == Patched(realEnvironment, c.field, c.val)
     IN IF realEnvironment # NoEnvironment
        THEN /\ environments' = (environments \ {realEnvironment}) \cup {updated}
             /\ state' = IF realEnvironment.parentId = c.ws
                         THEN ReloadBase(c.sel, updated)
                         ELSE state
        ELSE UNCHANGED <<environments, state>>
  /\ pending' = pending \ {c}
  /\ last' = [Did("updateEnvironmentDone") EXCEPT !.id = c.id]
  /\ UNCHANGED <<workspace, workspaceMeta, shown, editorValid, nextId>>

(* ---------------------------- onReorder ------------------------------- *)

\* Mutant: the two drop positions are exchanged.
ReorderKeySwapped(targetKey, dropPosition) ==
  IF dropPosition = "before" THEN targetKey + 1 ELSE targetKey - 1

ReorderKey(targetKey, dropPosition) ==
  IF dropPosition = "before" THEN targetKey - 1 ELSE targetKey + 1

\* source and target are looked up among the sub-environments
ReorderApplies(source, target, envs, st) ==
  /\ source \in EnvIds(SubEnvironmentSet(envs, st))
  /\ target \in EnvIds(SubEnvironmentSet(envs, st))

Reordered(source, target, dropPosition) ==
  [Did("onReorder") EXCEPT !.id = source, !.target = target, !.pos = dropPosition]

onReorder(source, target, dropPosition) ==
  /\ shown
  /\ IF ReorderApplies(source, target, environments, state)
     THEN LET sourceEnv == Find(environments, source)
              targetEnv == Find(environments, target)
              key == ReorderKey(targetEnv.metaSortKey, dropPosition)
          IN /\ key \in Keys
             /\ environments' = (environments \ {sourceEnv})
                                  \cup {[sourceEnv EXCEPT !.metaSortKey = key]}
             /\ Handle(Reordered(source, target, dropPosition),
                       updateEnvironmentCalls(source, "metaSortKey", key,
                                              state, workspace))
     ELSE /\ Handle(Reordered(source, target, dropPosition), <<>>)
          /\ UNCHANGED environments
  /\ UNCHANGED <<workspace, workspaceMeta, shown, editorValid, nextId>>

(* ---------------------------- the editor's onBlur --------------------- *)

onBlurCalls(valid, data, envs, st, ws) ==
  IF ~valid THEN <<>>
  ELSE IF selectedEnvironment(envs, st) # NoEnvironment
       THEN updateEnvironmentCalls(st.selectedEnvironmentId, "data", data, st, ws)
       ELSE <<>>

\* environmentEditorRef.current?.getValue(): the document the editor was
\* opened with; the base environment's is edited before the blur.
EditorValue(env) ==
  IF env.parentId = WorkspaceId THEN "edited" ELSE env.data

onBlur(data) ==
  /\ shown
  /\ selectedEnvironment(environments, state) # NoEnvironment
       => data = EditorValue(selectedEnvironment(environments, state))
  /\ Handle(Did("onBlur"),
            onBlurCalls(editorValid, data, environments, state, workspace))
  /\ UNCHANGED <<workspace, workspaceMeta, environments, shown, editorValid, nextId>>

(* ---------------------------- the specification ----------------------- *)

\* The ids of the sub-environments in the sidebar.
SubEnvironmentIds == EnvIds(SubEnvironmentSet(environments, state))

Next ==
  \/ ShowNoWorkspace
  \/ ShowStart
  \/ \E c \in pending : ShowDone(c)
  \/ Hide
  \/ \E k \in {Null} \cup SubIds : onSelectionChange(k)
  \/ \E id \in {Null, BaseId} \cup SubIds : handleDeleteEnvironment(id)
  \/ BaseClick
  \/ EditorInput
  \/ \E c \in pending : ApplyMetaUpdate(c)
  \/ \E c \in pending : ApplyRemove(c)
  \/ \E isPrivate \in BOOLEAN : CreateStart(isPrivate)
  \/ \E c \in pending, key \in Keys : CreateDone(c, key)
  \/ DuplicateStart
  \/ \E c \in pending : DuplicateDone(c)
  \/ \E source, target \in SubIds, dropPosition \in {"before", "after"} :
       onReorder(source, target, dropPosition)
  \/ \E data \in DataVals : onBlur(data)
  \/ \E c \in pending : updateEnvironmentDone(c)

Spec == Init /\ [][Next]_vars

(* ---------------------------- properties ------------------------------ *)

\* The persistence calls of kind t among a set of calls in flight.
OfKind(P, t) == {c \in P : c.t = t}

\* C1: handleDeleteEnvironment on a sub-environment that is the recorded
\* active environment first issues the workspace-meta update that sets
\* activeEnvironmentId to null, then the removal of the record, and only
\* then resets the selection; for a target that passes the guard and is
\* not the active environment it issues no workspace-meta update.
C1_DeleteClearsActiveFirst ==
  [][(last'.op = "handleDeleteEnvironment"
      /\ last'.id # Null /\ last'.id # state.baseEnvironment.id) =>
       IF workspaceMeta.activeEnvironmentId = last'.id
       THEN /\ last'.id \in SubEnvironmentIds =>
                 last'.calls = <<MetaUpdate(Null), Remove(last'.id),
                                 SetSelected(state.baseEnvironment.id)>>
            /\ last'.calls[1] = MetaUpdate(Null)
            /\ MetaUpdate(Null) \in pending'
       ELSE /\ \A i \in DOMAIN last'.calls : last'.calls[i].t # "workspaceMeta.update"
            /\ OfKind(pending', "workspaceMeta.update")
                 = OfKind(pending, "workspaceMeta.update")
    ]_vars

C1_Witness ==
  /\ last.op = "handleDeleteEnvironment"
  /\ last.id \in SubIds
  /\ last.calls = <<MetaUpdate(Null), Remove(last.id), SetSelected(BaseId)>>
  /\ state.selectedEnvironmentId = BaseId

\* C2: after a handleDeleteEnvironment call that passes its guard the
\* selected id is the base environment's id, whether or not the target
\* was found among the environments.
C2_DeleteSelectsBase ==
  (last.op = "handleDeleteEnvironment"
   /\ last.id # Null /\ last.id # state.baseEnvironment.id)
    => state.selectedEnvironmentId = state.baseEnvironment.id

\* The target was not found: no removal was issued.
C2_Witness ==
  /\ last.op = "handleDeleteEnvironment"
  /\ last.id \in SubIds
  /\ \A i \in DOMAIN last.calls : last.calls[i].t # "environment.remove"
  /\ state.selectedEnvironmentId = BaseId

\* C3: handleDeleteEnvironment with a null id or the base environment's id
\* changes nothing (no call is issued, the environments, the workspace
\* meta and the local state stay as they are), and once show has loaded
\* the base environment it exists in every state.
C3_BaseNeverDeleted ==
  /\ [][(last'.op = "handleDeleteEnvironment"
          /\ (last'.id = Null \/ last'.id = state.baseEnvironment.id)) =>
           /\ last'.calls = <<>>
           /\ UNCHANGED <<environments, workspaceMeta, state, pending>>
       ]_vars
  /\ [](state.baseEnvironment # NoEnvironment =>
          /\ \E e \in environments :
                e.id = state.baseEnvironment.id /\ e.parentId = workspace
          /\ \A c \in pending :
                c.t = "environment.remove" => c.id # state.baseEnvironment.id)

C3_Witness ==
  /\ last.op = "handleDeleteEnvironment"
  /\ last.id = state.baseEnvironment.id
  /\ state.selectedEnvironmentId \in SubIds
  /\ shown

\* C4: while the data editor reports invalid content, onSelectionChange
\* for a sub-environment leaves the selection as it was and issues no
\* call: the recorded active environment id is not changed.
C4_InvalidEditorBlocksSelection ==
  [][(last'.op = "onSelectionChange" /\ ~editorValid) =>
       /\ last'.calls = <<>>
       /\ UNCHANGED <<state, pending, workspaceMeta, environments>>
    ]_vars

C4_Witness ==
  /\ last.op = "onSelectionChange"
  /\ ~editorValid
  /\ last.id \in SubEnvironmentIds
  /\ last.id # state.selectedEnvironmentId
  /\ last.id # workspaceMeta.activeEnvironmentId

\* The place of environment id in the sidebar list.
Place(list, id) == CHOOSE i \in DOMAIN list : list[i].id = id

\* C5: onReorder with a dragged sub-environment S and a target
\* sub-environment T sets S's sort key to T's minus 1 for a drop before T
\* and to T's plus 1 for a drop after T, issues the update of that key for
\* S and changes no other environment; with A = 1 and B = 2, A dropped
\* after B gets 3 and follows B in the list.  With S or T not a current
\* sub-environment nothing is changed and nothing is issued.
C5_ReorderSetsKeyNextToTarget ==
  [][last'.op = "onReorder" =>
       IF last'.id \in SubEnvironmentIds /\ last'.target \in SubEnvironmentIds
       THEN LET S == Find(environments, last'.id)
                T == Find(environments, last'.target)
                key == IF last'.pos = "before" THEN T.metaSortKey - 1
                       ELSE T.metaSortKey + 1
            IN /\ last'.pos \in {"before", "after"}
               /\ environments' = (environments \ {S})
                                    \cup {[S EXCEPT !.metaSortKey = key]}
               /\ \E c \in pending' :
                    /\ c.t = "updateEnvironment" /\ c.id = S.id
                    /\ c.field = "metaSortKey" /\ c.val = key
               /\ (/\ S.id = FirstSubId /\ S.metaSortKey = 1
                   /\ T.id = FirstSubId + 1 /\ T.metaSortKey = 2
                   /\ last'.pos = "after")
                  => /\ Find(environments', FirstSubId).metaSortKey = 3
                     /\ Place(subEnvironments(environments', state'), FirstSubId + 1)
                          < Place(subEnvironments(environments', state'), FirstSubId)
       ELSE UNCHANGED <<environments, pending, state, workspaceMeta>>
    ]_vars

\* A (key 1) was dropped after B (key 2).
C5_Witness ==
  /\ last.op = "onReorder"
  /\ last.id = FirstSubId /\ last.target = FirstSubId + 1 /\ last.pos = "after"
  /\ {FirstSubId, FirstSubId + 1} \subseteq SubEnvironmentIds
  /\ Find(environments, FirstSubId).metaSortKey = 3
  /\ Find(environments, FirstSubId + 1).metaSortKey = 2
  /\ \E c \in pending : c.t = "updateEnvironment" /\ c.id = FirstSubId /\ c.val = 3

\* C6: a create started with a base environment loaded completes with a new
\* sub-environment of the base environment whose privacy flag is that of
\* the item clicked, and with that environment selected, whatever ran
\* while the create was pending; neither the click nor the completion
\* changes the recorded active environment id or issues an update of it.
C6_CreateSelectsNewEnvironment ==
  /\ [][last'.op = "createDone" =>
          /\ last'.id \notin EnvIds(environments)
          /\ \E e \in environments' \ environments :
               /\ environments' = environments \cup {e}
               /\ e.id = last'.id
               /\ e.parentId = state'.baseEnvironment.id
               /\ e.isPrivate = last'.isPrivate
          /\ state'.selectedEnvironmentId = last'.id
          /\ state'.baseEnvironment = state.baseEnvironment
          /\ workspaceMeta' = workspaceMeta
          /\ pending' \subseteq pending
       ]_vars
  /\ [][last'.op = "create" =>
          /\ workspaceMeta' = workspaceMeta
          /\ OfKind(pending', "workspaceMeta.update")
               = OfKind(pending, "workspaceMeta.update")
          /\ state.baseEnvironment # NoEnvironment =>
               \E c \in pending' \ pending :
                 c.t = "environment.create" /\ c.private = last'.isPrivate
       ]_vars

\* A private environment was created and is selected, while another
\* environment is the recorded active one.
C6_Witness ==
  /\ last.op = "createDone" /\ last.isPrivate
  /\ state.selectedEnvironmentId = last.id
  /\ \E e \in environments : e.id = last.id /\ e.isPrivate /\ e.parentId = BaseId
  /\ workspaceMeta.activeEnvironmentId = FirstSubId

\* C7: with a valid editor, onSelectionChange for sub-environment E
\* selects E and issues the workspace-meta update of activeEnvironmentId
\* to E exactly when the recorded activeEnvironmentId is not E.
C7_ValidSelectionPersistsIfChanged ==
  [][(last'.op = "onSelectionChange" /\ editorValid /\ last'.id # Null) =>
       /\ state'.selectedEnvironmentId = last'.id
       /\ state'.baseEnvironment = state.baseEnvironment
       /\ IF workspaceMeta.activeEnvironmentId # last'.id
          THEN /\ last'.calls = <<SetSelected(last'.id), MetaUpdate(last'.id)>>
               /\ pending' = pending \cup {MetaUpdate(last'.id)}
          ELSE /\ last'.calls = <<SetSelected(last'.id)>>
               /\ pending' = pending
    ]_vars

\* The environment selected was the recorded active one already: it became
\* the selection and nothing was issued.
C7_Witness ==
  /\ last.op = "onSelectionChange" /\ editorValid
  /\ last.id \in SubEnvironmentIds
  /\ last.id = workspaceMeta.activeEnvironmentId
  /\ last.calls = <<SetSelected(last.id)>>
  /\ state.selectedEnvironmentId = last.id
  /\ pending = {}

\* C8 as stated: when show completes, the selection is the activeEnvironmentId
\* recorded at that moment when it is set and the base environment's id
\* otherwise.
C8_ShowSelectsRecordedActive ==
  last.op = "showDone" =>
    state.selectedEnvironmentId =
      IF workspaceMeta.activeEnvironmentId # Null
      THEN workspaceMeta.activeEnvironmentId ELSE state.baseEnvironment.id

\* C8, amended: when show completes for a workspace, baseEnvironment is the
\* workspace's base environment, fetched or else created, and the
\* selection is the activeEnvironmentId that show read when it was called
\* when that was set and the base environment's id otherwise; show with no
\* active workspace changes nothing and does not present the modal; hide
\* changes neither baseEnvironment nor the selection.
C8_ShowLoadsBaseAndSelection ==
  /\ [][last'.op = "show" =>
          [t |-> "show", ws |-> workspace,
           id |-> workspaceMeta.activeEnvironmentId] \in pending'
       ]_vars
  /\ [][last'.op = "showDone" =>
          /\ state'.baseEnvironment \in environments'
          /\ state'.baseEnvironment.parentId = workspace
          /\ (\E e \in environments : e.parentId = workspace)
               => state'.baseEnvironment \in environments /\ environments' = environments
          /\ state'.selectedEnvironmentId =
               IF last'.id \notin {Null, Undefined}
               THEN last'.id ELSE state'.baseEnvironment.id
          /\ shown'
       ]_vars
  /\ [][last'.op = "showNoWorkspace" =>
          /\ workspace = Null
          /\ UNCHANGED <<state, shown, environments, workspaceMeta, pending>>
       ]_vars
  /\ [](workspace = Null => ~shown /\ state.baseEnvironment = NoEnvironment)
  /\ [][last'.op = "hide" => state' = state /\ ~shown']_vars

\* show selected the environment that was active when it was called,
\* although it is no longer the recorded active one.
C8_Witness ==
  /\ last.op = "showDone"
  /\ last.id \in SubIds
  /\ state.selectedEnvironmentId = last.id
  /\ workspaceMeta.activeEnvironmentId # last.id
  /\ state.baseEnvironment \in environments

\* C9: with a valid editor and a sub-environment selected, a click on the
\* "Base Environment" button selects the base environment.
C9_BaseClickSelectsBase ==
  [][(last'.op = "baseClick" /\ editorValid
      /\ state.selectedEnvironmentId \in SubEnvironmentIds) =>
       state'.selectedEnvironmentId = state.baseEnvironment.id
    ]_vars

\* C10: the completion of updateEnvironment leaves the selection as it was
\* just before the completion.
C10_UpdateKeepsSelection ==
  [][last'.op = "updateEnvironmentDone" =>
       state'.selectedEnvironmentId = state.selectedEnvironmentId
    ]_vars

\* C11: once no persistence call is pending, the workspace's
\* activeEnvironmentId is null or the id of an environment that exists.
C11_ActiveEnvironmentExists ==
  pending = {} =>
    workspaceMeta.activeEnvironmentId
      \in {Undefined, Null} \cup EnvIds(environments)
====
